---- MODULE Spec2Model ----
(***************************************************************************)
(* Model of patreon_archiver.main: the cursor-following page loop, the     *)
(* per-post classification and persistence, and the batched hand-off of    *)
(* the collected media URIs to the downloader.                             *)
(***************************************************************************)
EXTENDS Integers, Sequences, FiniteSets, TLC

VARIABLES
    remote,            \* which remote API answers the run's page requests
    output_dir,        \* -o/--output-dir: NoOutputDir, or the path of the directory
    dir_exists,        \* whether the directory -o names (or would default to) exists
    clock,             \* the earliest time at which the run can be where it is
    last_acquire,      \* the time at which a rate limiter was last entered, -1 if none
    events,            \* save_images: the steps of the call in hand, in order
    fail,              \* -x/--fail
    yt_dlp_arg_limit,  \* -L/--yt-dlp-arg-limit
    pc,                \* position of the single thread of control
    error,             \* name of the exception that ended the run, "" if none
    posts,             \* the page in hand: [data |-> the posts process_posts has
                       \* yet to consume, links |-> the page's links object]
    img,               \* save_images: number of image_order entries already done
    data,              \* save_images: the sub-resource record in hand (<<>> if none)
    next_uri,          \* the cursor (None when falsy)
    media_uris,        \* the run-scoped buffer of strings
    dirs,              \* directories created under the output directory
    files,             \* path -> content, for the files under the output directory
    writes,            \* number of filesystem writes performed
    requests,          \* page requests sent, in order: [uri, status]
    batches,           \* chunks not yet handed to the downloader
    calls,             \* ydl.download invocations, in order: [uris, ok]
    log,               \* what main itself hands to the logger, in order
    embed_urls         \* history: urls of the embed posts processed so far

vars == <<remote, output_dir, dir_exists, clock, last_acquire, events,
          fail, yt_dlp_arg_limit, pc, error, posts, img, data, next_uri,
          media_uris, dirs, files, writes, requests, batches, calls, log,
          embed_urls>>

----------------------------------------------------------------------------
(* Bounds of the environment. *)

\* the remote API serves a chain of at most MaxPages pages
MaxPages == 2
\* a page holds at most MaxPosts posts
MaxPosts == 1
\* the batch size is drawn from 1..MaxLimit
MaxLimit == 2

\* the falsy cursor (None or the empty string)
None == 0
\* the URI of the first page (POSTS_URI); page k has URI k
POSTS_URI == 1

EmbedTypes == {"audio_file", "audio_embed", "video_embed"}

Post(t, i, u, o) == [post_type |-> t, id |-> i, url |-> u, image_order |-> o]

\* the posts the remote API may serve
PostSet ==
    { Post("audio_file", "p3", "u1", <<>>),
      Post("audio_embed", "p4", "u2", <<>>),
      Post("video_embed", "p5", "u1", <<>>),
      Post("image_file", "p1", "i1", <<"a", "b">>),
      Post("other_post_type", "p2", "o1", <<>>) }

RECURSIVE SeqsUpTo(_, _)
SeqsUpTo(S, n) ==
    IF n = 0 THEN {<<>>}
    ELSE LET shorter == SeqsUpTo(S, n - 1)
         IN  shorter \cup {Append(s, x) : s \in {t \in shorter : Len(t) = n - 1}, x \in S}

\* the `links` object of a page: the key `next` may be missing, null, or a URI
NoLinks == [k \in {} |-> None]
Links(u) == [next |-> u]

\* the pages the remote API may serve at URI u
PagesAt(u) ==
    { [data |-> d, links |-> l] :
        d \in SeqsUpTo(PostSet, MaxPosts),
        l \in {NoLinks, Links(None)} \cup
              (IF u < MaxPages THEN {Links(u + 1)} ELSE {}) }

NoPage == [data |-> <<>>, links |-> NoLinks]

\* -L/--yt-dlp-arg-limit when the option is not given
DefaultLimit == 20

\* a remote API with two pages: an embed, an image set and a post of another
\* type on the first; on the second an embed with the url of the first, and
\* no cursor
ScenarioPages(u) ==
    IF u = POSTS_URI
      THEN { [data |-> << Post("video_embed", "p6", "u1", <<>>),
                          Post("image_file", "p1", "i1", <<"a", "b">>),
                          Post("other_post_type", "p2", "o1", <<>>) >>,
              links |-> Links(2)] }
      ELSE { [data |-> << Post("audio_embed", "p7", "u1", <<>>) >>,
              links |-> NoLinks] }

\* the directory the run works in: ./<campaign_id>, or the one -o names
OutputPath == "output_dir"

\* the value of output_dir when -o is not given (default=None)
NoOutputDir == "None"

----------------------------------------------------------------------------
(* Pure helpers. *)

\* json.dumps(pdd, sort_keys=True, indent=2) + '\n': the keys in sorted order,
\* each with its value
Dumps(pdd) ==
    <<"{", "id", pdd.id, "image_order">> \o pdd.image_order \o
    <<"post_type", pdd.post_type, "url", pdd.url, "}\n">>

DigitChar(d) ==
    CASE d = 0 -> "0" [] d = 1 -> "1" [] d = 2 -> "2" [] d = 3 -> "3"
      [] d = 4 -> "4" [] d = 5 -> "5" [] d = 6 -> "6" [] d = 7 -> "7"
      [] d = 8 -> "8" [] d = 9 -> "9"

RECURSIVE Decimal(_)
Decimal(n) == IF n < 10 THEN DigitChar(n) ELSE Decimal(n \div 10) \o DigitChar(n % 10)

\* f'{index:02d}'
TwoDigits(index) == IF index < 10 THEN "0" \o DigitChar(index) ELSE Decimal(index)

\* utils.get_extension: the file extension of a mime type
GetExtension(mimetype) ==
    CASE mimetype = "image/jpeg" -> "jpg"
      [] mimetype = "image/png" -> "png"
      [] OTHER -> "bin"

\* Path('.', 'images', pdd['id'])
ImagesDir(pdd) == "images/" \o pdd.id

PostJsonPath(pdd) == ImagesDir(pdd) \o "/post.json"

\* target_dir.joinpath(f'{index:02d}-{data["id"]}.' + get_extension(mimetype))
ImagePath(pdd, index, d) ==
    ImagesDir(pdd) \o "/" \o TwoDigits(index) \o "-" \o d.id \o "." \o
    GetExtension(d.mimetype)

\* mutant of OtherPath: the post type is left out of the file name
OtherPathWithoutType(pdd) == "other/" \o pdd.id \o ".json"

\* other.joinpath(f"{post_type}-{id}.json")
OtherPath(pdd) == "other/" \o pdd.post_type \o "-" \o pdd.id \o ".json"

\* utils.write_if_new: a file that already exists is left as it is
WriteIfNew(fs, path, content) ==
    IF path \in DOMAIN fs THEN fs ELSE (path :> content) @@ fs

WriteCount(fs, path) == IF path \in DOMAIN fs THEN 0 ELSE 1

Range(s) == {s[i] : i \in DOMAIN s}

\* utils.unique_iter: each distinct item once, in order of first occurrence
RECURSIVE UniqueFrom(_, _)
UniqueFrom(s, seen) ==
    IF s = <<>> THEN <<>>
    ELSE IF Head(s) \in seen THEN UniqueFrom(Tail(s), seen)
    ELSE <<Head(s)>> \o UniqueFrom(Tail(s), seen \cup {Head(s)})

UniqueIter(s) == UniqueFrom(s, {})

\* utils.chunks: contiguous slices of n items, the last one possibly shorter
RECURSIVE Chunks(_, _)
Chunks(s, n) ==
    IF s = <<>> THEN <<>>
    ELSE IF Len(s) <= n THEN <<s>>
    ELSE <<SubSeq(s, 1, n)>> \o Chunks(SubSeq(s, n + 1, Len(s)), n)

\* the keys of a SaveInfo dict, in insertion order: what iterating it yields
SaveInfoKeys == <<"post_data_dict", "target_dir">>

\* the sub-resource record served for GET MEDIA_URI/<id>
MediaRecord(id_) == [id |-> id_, mimetype |-> "image/jpeg", original |-> "orig/" \o id_]

NoData == [id |-> "", mimetype |-> "", original |-> ""]

\* -S/--sleep-time when the option is not given: the period of every limiter
sleep_time == 1

\* RateLimiter(max_calls=1, period=sleep_time).__enter__: an instance that
\* has been entered before sleeps for the period, a fresh one returns at
\* once.  The result is the time at which the caller goes on.
Acquire(used) == clock + (IF used THEN sleep_time ELSE 0)

\* one step of a save_images call: what was done, for which position of
\* image_order (0 for the post itself) and which identifier
Event(op, index, id_) == [op |-> op, index |-> index, id |-> id_]

----------------------------------------------------------------------------
(* The run. *)

\* the state when main is entered, for a remote API and a set of batch sizes
Start(api, limits) ==
    /\ remote = api
    /\ output_dir \in {NoOutputDir, OutputPath}
    /\ dir_exists \in BOOLEAN
    /\ clock = 0
    /\ last_acquire = -1
    /\ events = <<>>
    /\ fail \in BOOLEAN
    /\ yt_dlp_arg_limit \in limits
    /\ pc = "main"
    /\ error = ""
    /\ posts = NoPage
    /\ img = 0
    /\ data = NoData
    /\ next_uri = None
    /\ media_uris = <<>>
    /\ dirs = {}
    /\ files = <<>>
    /\ writes = 0
    /\ requests = <<>>
    /\ batches = <<>>
    /\ calls = <<>>
    /\ log = <<>>
    /\ embed_urls = {}

Init == Start("any", 1..MaxLimit)

\* the pages the remote API in front of the run may serve at URI u
Pages(u) == IF remote = "scenario" THEN ScenarioPages(u) ELSE PagesAt(u)

\* an uncaught exception unwinds to the top level and ends the process
Raise(exc) == pc' = "aborted" /\ error' = exc

\* mutant of Classify: audio_embed is missing from the tuple of embed types
ClassifyWithoutAudioEmbed(post) ==
    IF post.post_type \in {"audio_file", "video_embed"} THEN "embed"
    ELSE IF post.post_type = "image_file" THEN "image"
    ELSE "other"

\* the dispatch of process_posts on post_type
Classify(post) ==
    IF post.post_type \in EmbedTypes THEN "embed"
    ELSE IF post.post_type = "image_file" THEN "image"
    ELSE "other"

\* the post process_posts consumes next
Current == Head(posts.data)

\* the page in hand once process_posts has moved past that post
Consumed == [posts EXCEPT !.data = Tail(posts.data)]

\* mutant of PageFetchFails: the failure is swallowed and the loop goes on
PageFetchSwallowed(uri, exc) ==
    /\ requests' = Append(requests, [uri |-> uri, status |-> exc])
    /\ UNCHANGED <<pc, error, posts>>

\* a page request that fails: session.get raises on a transport failure,
\* r.raise_for_status() on a non-2xx response; nothing catches either
PageFetchFails(uri, exc) ==
    /\ requests' = Append(requests, [uri |-> uri, status |-> exc])
    /\ Raise(exc)
    /\ UNCHANGED posts

\* if output_dir is None: output_dir = Path('.', campaign_id);
\* makedirs(output_dir, exist_ok=True).  Then chdir(output_dir), which raises
\* when the directory is not there.
MakeOutputDir ==
    /\ pc = "main"
    /\ IF output_dir = NoOutputDir
         THEN /\ output_dir' = OutputPath
              /\ dir_exists' = TRUE
              /\ pc' = "get_posts"
              /\ UNCHANGED error
         ELSE /\ IF dir_exists
                   THEN pc' = "get_posts" /\ UNCHANGED error
                   ELSE Raise("FileNotFoundError")
              /\ UNCHANGED <<output_dir, dir_exists>>
    /\ UNCHANGED <<remote, clock, last_acquire, events, fail, yt_dlp_arg_limit,
                   posts, img, data, next_uri, media_uris, dirs, files, writes,
                   requests, batches, calls, log, embed_urls>>

\* session.get(POSTS_URI, params=...); r.raise_for_status(); posts = r.json()
GetPosts ==
    /\ pc = "get_posts"
    /\ \/ \E exc \in {"ConnectionError", "HTTPError"} : PageFetchFails(POSTS_URI, exc)
       \/ \E page \in Pages(POSTS_URI) :
            /\ requests' = Append(requests, [uri |-> POSTS_URI, status |-> "ok"])
            /\ posts' = page
            /\ pc' = "process_posts"
            /\ UNCHANGED error
    /\ UNCHANGED <<remote, output_dir, dir_exists, clock, last_acquire, events,
                   fail, yt_dlp_arg_limit, img, data, next_uri, media_uris, dirs,
                   files, writes, batches, calls, log, embed_urls>>

\* process_posts, embed branch: yield post['attributes']['url'], which the
\* caller's isinstance(x, str) filter lets into media_uris
YieldUrl ==
    /\ pc = "process_posts"
    /\ posts.data # <<>>
    /\ Classify(Current) = "embed"
    /\ media_uris' = Append(media_uris, Current.url)
    /\ embed_urls' = embed_urls \cup {Current.url}
    /\ posts' = Consumed
    /\ UNCHANGED <<remote, output_dir, dir_exists, clock, last_acquire, events,
                   fail, yt_dlp_arg_limit, pc, error, img, data, next_uri,
                   dirs, files, writes, requests, batches, calls, log>>

\* save_images up to the loop: makedirs(target_dir); write_if_new(post.json)
SaveImagesBegin ==
    /\ pc = "process_posts"
    /\ posts.data # <<>>
    /\ Classify(Current) = "image"
    /\ dirs' = dirs \cup {ImagesDir(Current)}
    /\ files' = WriteIfNew(files, PostJsonPath(Current), Dumps(Current))
    /\ writes' = writes + WriteCount(files, PostJsonPath(Current))
    /\ img' = 0
    /\ events' = <<Event("write_post_json", 0, Current.id)>>
    /\ pc' = "save_images"
    /\ UNCHANGED <<remote, output_dir, dir_exists, clock, last_acquire,
                   fail, yt_dlp_arg_limit, error, posts, data, next_uri,
                   media_uris, requests, batches, calls, log, embed_urls>>

\* mutant of ImageIndex: enumerate without start=1
ImageIndexFromZero == img

\* for index, id_ in enumerate(image_order, start=1): the index of the
\* iteration in hand
ImageIndex == img + 1

\* rate_limiter = RateLimiter(...) is made anew by every save_images call, so
\* it has been entered before iff an image of this call is done
ImageLimiterUsed == img >= 1

\* with rate_limiter: session.get(f'{MEDIA_URI}/{id_}'); r.json()['data'].
\* A transport failure raises; an error response carries no 'data'.
GetMedia ==
    /\ pc = "save_images"
    /\ img < Len(Current.image_order)
    /\ clock' = Acquire(ImageLimiterUsed)
    /\ last_acquire' = clock'
    /\ events' = events \o
          << Event("acquire", ImageIndex, Current.image_order[img + 1]),
             Event("get_media", ImageIndex, Current.image_order[img + 1]) >>
    /\ \/ \E exc \in {"ConnectionError", "KeyError"} :
            /\ Raise(exc)
            /\ UNCHANGED data
       \/ /\ data' = MediaRecord(Current.image_order[img + 1])
          /\ pc' = "get_original"
          /\ UNCHANGED error
    /\ UNCHANGED <<remote, output_dir, dir_exists,
                   fail, yt_dlp_arg_limit, posts, img, next_uri, media_uris,
                   dirs, files, writes, requests, batches, calls, log, embed_urls>>

\* the bytes served for the original URL, and the body of an error response
Content(d) == <<"bytes", d.original>>
ErrorBody == <<"error body">>

\* mutant of SaveImage: the file is opened for writing whether or not it exists
SaveImageOverwrite(fs, path, content) == (path :> content) @@ fs

\* write_if_new(target_dir.joinpath(...), r.content, 'wb')
SaveImage(fs, path, content) == WriteIfNew(fs, path, content)

\* session.get(data[...]['original']); write_if_new(<NN>-<id>.<ext>, r.content).
\* The status of the response is not looked at.
GetOriginal ==
    /\ pc = "get_original"
    /\ \/ /\ Raise("ConnectionError")
          /\ events' = Append(events, Event("get_original", ImageIndex, data.id))
          /\ UNCHANGED <<files, writes, img, data>>
       \/ \E content \in {Content(data), ErrorBody} :
            /\ files' = SaveImage(files, ImagePath(Current, ImageIndex, data), content)
            /\ writes' = writes + WriteCount(files, ImagePath(Current, ImageIndex, data))
            /\ events' = events \o << Event("get_original", ImageIndex, data.id),
                                      Event("write", ImageIndex, data.id) >>
            /\ img' = img + 1
            /\ data' = NoData
            /\ pc' = "save_images"
            /\ UNCHANGED error
    /\ UNCHANGED <<remote, output_dir, dir_exists, clock, last_acquire,
                   fail, yt_dlp_arg_limit, posts, next_uri, media_uris, dirs,
                   requests, batches, calls, log, embed_urls>>

\* what `yield from save_images(...)` hands to the caller: iterating the
\* returned SaveInfo dict yields its keys
YieldFromSaveInfo == SaveInfoKeys

\* save_images returns; process_posts yields from the returned SaveInfo and
\* the caller keeps the strings among what is yielded
SaveImagesReturn ==
    /\ pc = "save_images"
    /\ img = Len(Current.image_order)
    /\ media_uris' = media_uris \o YieldFromSaveInfo
    /\ posts' = Consumed
    /\ pc' = "process_posts"
    /\ UNCHANGED <<remote, output_dir, dir_exists, clock, last_acquire, events,
                   fail, yt_dlp_arg_limit, error, img, data, next_uri, dirs,
                   files, writes, requests, batches, calls, log, embed_urls>>

\* process_posts, else branch: yield save_other(post); a SaveInfo is not a
\* str, so nothing reaches media_uris
SaveOther ==
    /\ pc = "process_posts"
    /\ posts.data # <<>>
    /\ Classify(Current) = "other"
    /\ dirs' = dirs \cup {"other"}
    /\ files' = WriteIfNew(files, OtherPath(Current), Dumps(Current))
    /\ writes' = writes + WriteCount(files, OtherPath(Current))
    /\ posts' = Consumed
    /\ UNCHANGED <<remote, output_dir, dir_exists, clock, last_acquire, events,
                   fail, yt_dlp_arg_limit, pc, error, img, data, next_uri,
                   media_uris, requests, batches, calls, log, embed_urls>>

FirstPage == Len(requests) = 1

HasNext(page) == "next" \in DOMAIN page.links

\* logger.debug(f'Next URI: {next_uri}')
LogNextUri(l) == Append(l, "Next URI")

\* first page: next_uri = posts['links']['next'], outside any try
ReadNextFirst ==
    /\ pc = "process_posts"
    /\ posts.data = <<>>
    /\ FirstPage
    /\ IF HasNext(posts)
         THEN /\ next_uri' = posts.links.next
              /\ log' = LogNextUri(log)
              /\ pc' = "while"
              /\ UNCHANGED error
         ELSE /\ Raise("KeyError")
              /\ UNCHANGED <<next_uri, log>>
    /\ UNCHANGED <<remote, output_dir, dir_exists, clock, last_acquire, events,
                   fail, yt_dlp_arg_limit, posts, img, data, media_uris, dirs,
                   files, writes, requests, batches, calls, embed_urls>>

\* mutant of NextCursor: the handler of the KeyError leaves next_uri as it was
NextCursorKept(page) == IF HasNext(page) THEN page.links.next ELSE next_uri

\* try: next_uri = posts['links']['next'] except KeyError: next_uri = None
NextCursor(page) == IF HasNext(page) THEN page.links.next ELSE None

\* later pages: the cursor is read inside the try
ReadNext ==
    /\ pc = "process_posts"
    /\ posts.data = <<>>
    /\ ~FirstPage
    /\ next_uri' = NextCursor(posts)
    /\ log' = IF HasNext(posts) THEN LogNextUri(log) ELSE log
    /\ pc' = "while"
    /\ UNCHANGED <<remote, output_dir, dir_exists, clock, last_acquire, events,
                   fail, yt_dlp_arg_limit, error, posts, img, data, media_uris,
                   dirs, files, writes, requests, batches, calls, embed_urls>>

\* mutant of CursorUri: the loop asks for the first page again
CursorUriFirstPage == POSTS_URI

\* the URI the loop requests: session.get(next_uri)
CursorUri == next_uri

\* rate_limiter = RateLimiter(...) is made once, before the loop, and entered
\* once per iteration; the request of the first page does not go through it
PageLimiterUsed == Len(requests) >= 2

\* mutant of LoopContinues: the loop body is never entered
LoopSkipped == FALSE

\* the loop condition: while next_uri
LoopContinues == next_uri # None

\* while next_uri: with rate_limiter: session.get(next_uri);
\* r.raise_for_status(); posts = r.json()
GetNextPage ==
    /\ pc = "while"
    /\ LoopContinues
    /\ clock' = Acquire(PageLimiterUsed)
    /\ last_acquire' = clock'
    /\ \/ \E exc \in {"ConnectionError", "HTTPError"} : PageFetchFails(CursorUri, exc)
       \/ \E page \in Pages(CursorUri) :
            /\ requests' = Append(requests, [uri |-> CursorUri, status |-> "ok"])
            /\ posts' = page
            /\ pc' = "process_posts"
            /\ UNCHANGED error
    /\ UNCHANGED <<remote, output_dir, dir_exists, events,
                   fail, yt_dlp_arg_limit, img, data, next_uri, media_uris, dirs,
                   files, writes, batches, calls, log, embed_urls>>

\* mutant of MakeChunks: the whole list goes to the downloader in one call
MakeChunksOneCall == <<UniqueIter(media_uris)>>

\* mutant of MakeChunks: the buffer is chunked without unique_iter
MakeChunksNoDedup == Chunks(media_uris, yt_dlp_arg_limit)

\* chunks(list(unique_iter(media_uris)), yt_dlp_arg_limit)
MakeChunks == Chunks(UniqueIter(media_uris), yt_dlp_arg_limit)

\* the loop is left; the downloader is set up and the chunks are made
StartDownloads ==
    /\ pc = "while"
    /\ ~LoopContinues
    /\ batches' = MakeChunks
    /\ pc' = "download"
    /\ UNCHANGED <<remote, output_dir, dir_exists, clock, last_acquire, events,
                   fail, yt_dlp_arg_limit, error, posts, img, data, next_uri,
                   media_uris, dirs, files, writes, requests, calls, log, embed_urls>>

\* mutant of AfterFailure: the flag is not looked at and the loop goes on
AfterFailureContinues == "download"

\* mutant of AfterFailure: the run is aborted whatever the flag
AfterFailureAborts == "aborted"

\* what follows a ydl.download that raised: if fail: raise click.Abort()
AfterFailure == IF fail THEN "aborted" ELSE "download"

\* one iteration of the loop over the chunks: ydl.download(list(chunk))
Download ==
    /\ pc = "download"
    /\ batches # <<>>
    /\ \E ok \in BOOLEAN :
         /\ calls' = Append(calls, [uris |-> Head(batches), ok |-> ok])
         /\ batches' = Tail(batches)
         /\ pc' = IF ok THEN "download" ELSE AfterFailure
         /\ error' = IF pc' = "aborted" THEN "Abort" ELSE error
    /\ UNCHANGED <<remote, output_dir, dir_exists, clock, last_acquire, events,
                   fail, yt_dlp_arg_limit, posts, img, data, next_uri,
                   media_uris, dirs, files, writes, requests, log, embed_urls>>

\* the chunks are exhausted: main returns
Finish ==
    /\ pc = "download"
    /\ batches = <<>>
    /\ pc' = "done"
    /\ UNCHANGED <<remote, output_dir, dir_exists, clock, last_acquire, events,
                   fail, yt_dlp_arg_limit, error, posts, img, data, next_uri,
                   media_uris, dirs, files, writes, requests, batches, calls,
                   log, embed_urls>>

Next ==
    \/ MakeOutputDir
    \/ GetPosts
    \/ YieldUrl
    \/ SaveImagesBegin
    \/ GetMedia
    \/ GetOriginal
    \/ SaveImagesReturn
    \/ SaveOther
    \/ ReadNextFirst
    \/ ReadNext
    \/ GetNextPage
    \/ StartDownloads
    \/ Download
    \/ Finish

Spec == Init /\ [][Next]_vars

\* the single thread of control keeps running while it has a step to take
FairSpec == Spec /\ WF_vars(Next)

\* the run in front of the two-page remote API, with the default batch size
ScenarioInit == Start("scenario", {DefaultLimit})

ScenarioSpec == ScenarioInit /\ [][Next]_vars

----------------------------------------------------------------------------
(* Vocabulary of the properties. *)

RECURSIVE Flatten(_)
Flatten(ss) == IF ss = <<>> THEN <<>> ELSE Head(ss) \o Flatten(Tail(ss))

\* the strings handed to the downloader so far, in order
Dispatched == Flatten([k \in DOMAIN calls |-> calls[k].uris])

\* x occurs in s before any occurrence of y
FirstSeenBefore(s, x, y) ==
    \E i \in DOMAIN s : s[i] = x /\ \A j \in 1..i : s[j] # y

NoDuplicates(s) == \A i, j \in DOMAIN s : s[i] = s[j] => i = j

CeilDiv(m, l) == (m + l - 1) \div l

\* process_posts is about to consume a post
AtPost == pc = "process_posts" /\ posts.data # <<>>

\* the cursor of the page in hand is missing, null or empty
CursorAbsent == ~HasNext(posts) \/ posts.links.next = None

----------------------------------------------------------------------------
(* C1: processing an image_file post adds nothing to the media buffer, so  *)
(* every string in media_uris is the url of some audio_file, audio_embed   *)
(* or video_embed post processed so far.                                   *)
C1_MediaUrisAreEmbedUrls == Range(media_uris) \subseteq embed_urls

(* C2: processing a post of type audio_file, audio_embed or video_embed    *)
(* appends exactly that post's url to the end of the media buffer and      *)
(* neither writes a file nor creates a directory.                          *)
C2_EmbedAppendsUrlOnly ==
    [][(AtPost /\ Current.post_type \in {"audio_file", "audio_embed", "video_embed"})
        => /\ media_uris' = Append(media_uris, Current.url)
           /\ posts' = Consumed
           /\ files' = files /\ writes' = writes /\ dirs' = dirs]_vars

C2_Witness ==
    /\ media_uris = <<"u1", "u2">>
    /\ Len(requests) = 2
    /\ files = <<>> /\ dirs = {} /\ writes = 0

(* C3: processing a post whose type is neither an embed type nor           *)
(* image_file leaves other/<post_type>-<id>.json on disk (written with the *)
(* post's metadata unless the file was already there), touches no other    *)
(* file, nothing under images/, and adds nothing to the media buffer.      *)
C3_OtherPostPersisted ==
    [][(AtPost /\ Current.post_type \notin
                    {"audio_file", "audio_embed", "video_embed", "image_file"})
        => LET path == "other/" \o Current.post_type \o "-" \o Current.id \o ".json"
           IN  /\ path \in DOMAIN files'
               /\ path \notin DOMAIN files =>
                    files'[path] = Dumps(Current) /\ writes' = writes + 1
               /\ DOMAIN files' \ DOMAIN files \subseteq {path}
               /\ \A f \in DOMAIN files : files'[f] = files[f]
               /\ dirs' \ dirs \subseteq {"other"}
               /\ media_uris' = media_uris
               /\ posts' = Consumed]_vars

C3_Witness ==
    /\ DOMAIN files = {"other/other_post_type-p2.json"}
    /\ dirs = {"other"}
    /\ media_uris = <<>>
    /\ pc = "process_posts" /\ posts.data = <<>>

(* C4: on every page, the first included, a cursor that is missing, null   *)
(* or empty ends pagination without an error and the run goes on to the    *)
(* dispatch of the buffered media references.                              *)
C4_AbsentCursorEndsPagination ==
    [][(pc = "process_posts" /\ posts.data = <<>> /\ CursorAbsent)
        => (pc' = "while" /\ next_uri' = None /\ error' = "")]_vars

(* C5: page k of the chain is requested as the k-th request and never      *)
(* again; a page is requested only once every post of the page before it   *)
(* has been processed, and only at the cursor that page gave; once the     *)
(* dispatch has begun the last page fetched is one without a cursor.       *)
C5_PagesInCursorOrder ==
    /\ [](/\ \A k \in DOMAIN requests : requests[k].uri = k
          /\ (pc = "while" /\ next_uri # None) =>
                /\ posts.data = <<>>
                /\ HasNext(posts) /\ posts.links.next = next_uri
                /\ next_uri = Len(requests) + 1
          /\ pc \in {"download", "done"} => CursorAbsent /\ posts.data = <<>>)
    /\ [][requests' # requests =>
            /\ requests' = Append(requests, requests'[Len(requests')])
            /\ requests # <<>> => pc = "while" /\ posts.data = <<>>]_vars

C5_Witness ==
    /\ pc = "done"
    /\ Len(requests) = MaxPages
    /\ \A k \in DOMAIN requests : requests[k].status = "ok"
    /\ media_uris # <<>>

\* d lists the distinct items of s, each once, in order of first occurrence
IsDedupOf(d, s) ==
    /\ NoDuplicates(d)
    /\ Range(d) = Range(s)
    /\ \A j \in DOMAIN d : \A i \in 1..(j - 1) : FirstSeenBefore(s, d[i], d[j])

FailedCalls == {k \in DOMAIN calls : ~calls[k].ok}

(* C6: when the run ends with no downloader invocation having failed, the  *)
(* downloader was invoked ceil(M/L) times for M distinct buffered strings  *)
(* and batch size L, each time with between 1 and L items, and the batches *)
(* in invocation order concatenate to the deduplicated buffer.             *)
C6_BatchPartition ==
    (pc = "done" /\ FailedCalls = {}) =>
        /\ Len(calls) = CeilDiv(Cardinality(Range(media_uris)), yt_dlp_arg_limit)
        /\ \A k \in DOMAIN calls :
              Len(calls[k].uris) >= 1 /\ Len(calls[k].uris) <= yt_dlp_arg_limit
        /\ LET d == Dispatched IN IsDedupOf(d, media_uris)
        /\ media_uris = <<>> => calls = <<>>

C6_Witness ==
    /\ pc = "done"
    /\ FailedCalls = {}
    /\ yt_dlp_arg_limit = 2
    /\ Len(calls) = 2
    /\ Len(Dispatched) = 3

(* C7: with fail set, a downloader invocation that raises is the last one  *)
(* of the run: the run is aborted at once with the remaining batches       *)
(* undispatched, and the failed batch is not passed again.                 *)
C7_FailFastAborts ==
    fail => \A k \in FailedCalls :
                /\ k = Len(calls)
                /\ pc = "aborted" /\ error = "Abort"
                /\ LET d == Dispatched IN NoDuplicates(d)

C7_Witness ==
    /\ fail
    /\ pc = "aborted" /\ error = "Abort"
    /\ Len(calls) = 2 /\ calls[1].ok /\ ~calls[2].ok
    /\ batches # <<>>

\* the entries of the log that report a failed downloader invocation
FailureLogEntries == {k \in DOMAIN log : log[k] # "Next URI"}

\* with fail unset the dispatch runs through every batch, each passed once
ContinuesPastFailures ==
    ~fail =>
        /\ error # "Abort"
        /\ calls # <<>> => pc \in {"download", "done"}
        /\ pc \in {"download", "done"} =>
              LET all == Dispatched \o Flatten(batches)
              IN  /\ [k \in DOMAIN calls |-> calls[k].uris] \o batches
                        = Chunks(all, yt_dlp_arg_limit)
                  /\ IsDedupOf(all, media_uris)
        /\ pc = "done" => batches = <<>>

C9_DispatchedOnceInFirstSeenOrder ==
    calls # <<>> =>
        LET d == Dispatched
        IN  /\ NoDuplicates(d)
            /\ Range(d) \subseteq Range(media_uris)
            /\ \A j \in DOMAIN d : \A i \in 1..(j - 1) :
                  FirstSeenBefore(media_uris, d[i], d[j])
            /\ pc = "done" => Range(d) = Range(media_uris)

C9_Witness ==
    /\ pc = "done"
    /\ media_uris = <<"u1", "u1">>
    /\ Len(requests) = 2
    /\ Dispatched = <<"u1">>

(* C10: a page request that fails, on the first page or on a cursor page,  *)
(* is the last request of the run: the run is aborted with that failure,   *)
(* the request is not sent again, no further page is requested and the     *)
(* downloader is never invoked, whatever the value of fail.                *)
C10_PageFetchFailureAborts ==
    \A k \in DOMAIN requests :
        requests[k].status # "ok" =>
            /\ k = Len(requests)
            /\ pc = "aborted" /\ error = requests[k].status
            /\ \A j \in 1..(k - 1) : requests[j].uri # requests[k].uri
            /\ calls = <<>>

C10_Witness ==
    /\ ~fail
    /\ pc = "aborted"
    /\ Len(requests) = 2
    /\ requests[1].status = "ok"
    /\ requests[2].status = "HTTPError"
    /\ media_uris # <<>>

\* a run ended by an exception other than the dispatcher's click.Abort
AbortedBeforeDispatch == pc = "aborted" /\ error # "Abort"

(* C11: in save_images a fetch that fails, the record lookup or the        *)
(* download of the original (transport failure or non-2xx response), ends  *)
(* the run: nothing is written for that fetch, no later image, post or     *)
(* page is processed and the downloader is never invoked; a download that  *)
(* does not fail writes the bytes served for the original.                 *)
C11_ImageFetchFailureAborts ==
    /\ [](AbortedBeforeDispatch => calls = <<>> /\ batches = <<>>)
    /\ [][/\ (pc = "save_images" /\ img < Len(Current.image_order)) =>
                \/ pc' = "aborted" /\ files' = files /\ img' = img /\ posts' = posts
                \/ pc' = "get_original" /\ files' = files
          /\ pc = "get_original" =>
                \/ pc' = "aborted" /\ files' = files /\ img' = img /\ posts' = posts
                \/ files' = WriteIfNew(files, ImagePath(Current, img + 1, data),
                                       Content(data))]_vars

(* C12: persistence is first-write-wins and additive for post.json, the    *)
(* image files and other/*.json: every step leaves each existing file with *)
(* the content it had, performs one write for each file it creates and     *)
(* none for a path that is already there (whether the content offered is   *)
(* the same or not), and removes no file or directory; so processing again *)
(* a post whose files are all present writes nothing.                      *)
C12_FirstWriteWins ==
    [][/\ \A p \in DOMAIN files : p \in DOMAIN files' /\ files'[p] = files[p]
       /\ writes' = writes + Cardinality(DOMAIN files' \ DOMAIN files)
       /\ dirs \subseteq dirs']_vars

C12_Witness ==
    /\ media_uris = SaveInfoKeys \o SaveInfoKeys
    /\ Len(requests) = 2
    /\ writes = 3
    /\ files["images/p1/01-a.jpg"] = ErrorBody
    /\ files["images/p1/02-b.jpg"] = Content(MediaRecord("b"))

(* C13: in front of the two-page remote API of the scenario, with batch    *)
(* size 20, a run that ends normally has made exactly one downloader call, *)
(* with exactly <<"u1">>, and the files on disk are exactly post.json and  *)
(* the two numbered images of p1 and the dump of p2.                       *)
C13_ScenarioOutcome ==
    pc = "done" =>
        /\ Len(calls) = 1
        /\ calls[1].uris = <<"u1">>
        /\ DOMAIN files = { "images/p1/post.json",
                            "images/p1/01-a.jpg",
                            "images/p1/02-b.jpg",
                            "other/other_post_type-p2.json" }

(* C14: the output directory is created when it is absent, whether it was  *)
(* defaulted or given with -o: the run never ends before the first page    *)
(* request, and once it has changed into the directory the directory       *)
(* exists.                                                                 *)
C14_OutputDirCreated ==
    /\ requests = <<>> => pc # "aborted"
    /\ pc # "main" => dir_exists

(* C15: the downloader is invoked only once pagination is over: whenever a *)
(* batch has been made or passed to the downloader, every page request has *)
(* succeeded and the page in hand is the last one (no cursor) with all its *)
(* posts processed; a run that ends in a page request, in the reading of   *)
(* the cursor or in save_images has invoked the downloader zero times.     *)
C15_DispatchAfterPagination ==
    /\ (calls # <<>> \/ batches # <<>>) =>
          /\ posts.data = <<>>
          /\ CursorAbsent
          /\ next_uri = None
          /\ \A k \in DOMAIN requests : requests[k].status = "ok"
          /\ pc \in {"download", "done"} \/ (pc = "aborted" /\ error = "Abort")
    /\ AbortedBeforeDispatch => calls = <<>>

C15_Witness ==
    /\ pc = "aborted" /\ error = "ConnectionError"
    /\ Len(requests) = 2 /\ requests[2].status = "ok"
    /\ posts.data # <<>>
    /\ media_uris # <<>>
    /\ calls = <<>>

\* a save_images call is in hand, or the run ended inside one
InSaveImages ==
    /\ pc \in {"save_images", "get_original"} \/ AbortedBeforeDispatch
    /\ posts.data # <<>>
    /\ Current.post_type = "image_file"
    /\ events # <<>>

\* the four steps for the k-th identifier of image_order
StepsOf(order, k) ==
    << Event("acquire", k, order[k]), Event("get_media", k, order[k]),
       Event("get_original", k, order[k]), Event("write", k, order[k]) >>

\* the steps of a whole save_images call for post pdd
StepsOfPost(pdd) ==
    <<Event("write_post_json", 0, pdd.id)>> \o
    Flatten([k \in DOMAIN pdd.image_order |-> StepsOf(pdd.image_order, k)])

(* C16: within a save_images call the steps taken so far are post.json     *)
(* first, then for k = 1, 2, ... in image_order order: limiter entered,    *)
(* record k fetched, original k fetched, file k written, each image's four *)
(* steps before any step of the next; and the file written for the k-th    *)
(* identifier carries the 1-based two-digit index k.                       *)
C16_ImagesInOrder ==
    InSaveImages =>
        LET expected == StepsOfPost(Current)
        IN  /\ Len(events) <= Len(expected)
            /\ events = SubSeq(expected, 1, Len(events))
            /\ pc = "save_images" => Len(events) = 1 + 4 * img
            /\ pc = "get_original" => Len(events) = 3 + 4 * img
            /\ PostJsonPath(Current) \in DOMAIN files
            /\ \A k \in 1..img :
                  (ImagesDir(Current) \o "/" \o TwoDigits(k) \o "-" \o
                   Current.image_order[k] \o ".jpg") \in DOMAIN files

C16_Witness ==
    /\ pc = "save_images"
    /\ img = 2
    /\ Len(events) = 9
    /\ events[9] = Event("write", 2, "b")
    /\ DOMAIN files = {"images/p1/post.json", "images/p1/01-a.jpg", "images/p1/02-b.jpg"}

\* the step about to be taken enters a rate limiter
AtAcquire ==
    \/ pc = "save_images" /\ img < Len(Current.image_order)
    \/ pc = "while" /\ LoopContinues

(* C17: any two consecutive entries into a rate limiter during a run, for  *)
(* a cursor page request or an image record request, across all posts and  *)
(* pages, are at least sleep_time apart.                                   *)
C17_AcquiresSpaced ==
    [][(AtAcquire /\ last_acquire # -1)
        => last_acquire' - last_acquire >= sleep_time]_vars

\* the run has ended: main returned, or an exception ended the process
Terminated == pc \in {"done", "aborted"}

\* the steps process_posts takes for one post
PostSteps(post) ==
    IF post.post_type = "image_file" THEN 2 + 2 * Len(post.image_order) ELSE 1

RECURSIVE SumSteps(_)
SumSteps(ps) == IF ps = <<>> THEN 0 ELSE PostSteps(Head(ps)) + SumSteps(Tail(ps))

\* the steps of the save_images call in hand that are already taken
StepsTaken ==
    IF pc = "save_images" THEN 1 + 2 * img
    ELSE IF pc = "get_original" THEN 2 + 2 * img
    ELSE 0

\* what is left of the run: the pages the remote API can still be asked for,
\* the steps left on the page in hand (the reading of the cursor included),
\* the stages before the dispatch, and the steps left of the dispatch
Measure ==
    << MaxPages - Len(requests),
       IF pc \in {"process_posts", "save_images", "get_original"}
         THEN SumSteps(posts.data) - StepsTaken + 1 ELSE 0,
       IF pc = "main" THEN 2
         ELSE IF pc \in {"download", "done", "aborted"} THEN 0 ELSE 1,
       IF pc = "download" THEN Len(batches) + 1 ELSE 0 >>

\* the lexicographic order on measures
LexLess(a, b) ==
    \E i \in DOMAIN a : a[i] < b[i] /\ \A j \in 1..(i - 1) : a[j] = b[j]

C18_EventuallyTerminated == <>Terminated

====
